---------------------------- MODULE Spec2Model ----------------------------
(***************************************************************************)
(* A model of package datasize (src/datasize.go): the Size value type, its *)
(* parser, its canonical formatter, Floor / Round, and the flag adapter.   *)
(*                                                                         *)
(* Size is a uint64 and the formatter and the parser compute in float64.   *)
(* TLC's integers are 32 bits wide, so a natural number is held as a       *)
(* little-endian sequence of limbs in base 2^15 (the empty sequence is 0,  *)
(* the last limb is never 0), and a float64 as a sign, an integer          *)
(* significand of at most 53 bits and a binary exponent.  Every float64    *)
(* operation rounds to nearest, ties to even, as IEEE 754 does.            *)
(* A Go string is a sequence of one-character strings.                     *)
(***************************************************************************)
EXTENDS Integers, Sequences, FiniteSets, TLC

(***************************************************************************)
(* Natural numbers of any width (the values of uint64 and the exact        *)
(* intermediate values of the float64 operations).                         *)
(***************************************************************************)
LimbBits == 16 - 1
LimbBase == 2 ^ LimbBits

Zero == << >>

RECURSIVE Norm(_)
Norm(a) ==
    IF a = << >> THEN << >>
    ELSE IF a[Len(a)] = 0 THEN Norm(SubSeq(a, 1, Len(a) - 1))
    ELSE a

RECURSIVE Nat2Big(_)
Nat2Big(n) ==
    IF n = 0 THEN << >> ELSE <<n % LimbBase>> \o Nat2Big(n \div LimbBase)

Limb(a, i) == IF i <= Len(a) THEN a[i] ELSE 0

RECURSIVE AddFrom(_, _, _, _)
AddFrom(a, b, i, c) ==
    IF i > Len(a) /\ i > Len(b)
    THEN IF c = 0 THEN << >> ELSE <<c>>
    ELSE LET t == Limb(a, i) + Limb(b, i) + c
         IN  <<t % LimbBase>> \o AddFrom(a, b, i + 1, t \div LimbBase)

Add(a, b) == AddFrom(a, b, 1, 0)

RECURSIVE SubFrom(_, _, _, _)
SubFrom(a, b, i, c) ==
    IF i > Len(a) THEN << >>
    ELSE LET t == Limb(a, i) - Limb(b, i) - c
         IN  IF t < 0 THEN <<t + LimbBase>> \o SubFrom(a, b, i + 1, 1)
             ELSE <<t>> \o SubFrom(a, b, i + 1, 0)

\* a - b, for a >= b
Sub(a, b) == Norm(SubFrom(a, b, 1, 0))

RECURSIVE CmpFrom(_, _, _)
CmpFrom(a, b, i) ==
    IF i = 0 THEN 0
    ELSE IF a[i] < b[i] THEN -1
    ELSE IF a[i] > b[i] THEN 1
    ELSE CmpFrom(a, b, i - 1)

\* -1, 0 or 1 as a < b, a = b or a > b
Cmp(a, b) ==
    IF Len(a) < Len(b) THEN -1
    ELSE IF Len(a) > Len(b) THEN 1
    ELSE CmpFrom(a, b, Len(a))

Lt(a, b) == Cmp(a, b) < 0
Le(a, b) == Cmp(a, b) <= 0

RECURSIVE MulSmallFrom(_, _, _, _)
MulSmallFrom(a, k, i, c) ==
    IF i > Len(a) THEN (IF c = 0 THEN << >> ELSE <<c>>)
    ELSE LET t == a[i] * k + c
         IN  <<t % LimbBase>> \o MulSmallFrom(a, k, i + 1, t \div LimbBase)

\* a * k, for 0 <= k < LimbBase
MulSmall(a, k) == IF k = 0 THEN << >> ELSE MulSmallFrom(a, k, 1, 0)

ShiftLimbs(a, n) ==
    IF a = << >> THEN << >> ELSE [i \in 1..n |-> 0] \o a

RECURSIVE MulFrom(_, _, _)
MulFrom(a, b, i) ==
    IF i > Len(b) THEN << >>
    ELSE Add(ShiftLimbs(MulSmall(a, b[i]), i - 1), MulFrom(a, b, i + 1))

Mul(a, b) == MulFrom(a, b, 1)

RECURSIVE DivSmallFrom(_, _, _, _)
DivSmallFrom(a, d, i, r) ==
    IF i = 0 THEN <<<< >>, r>>
    ELSE LET t    == r * LimbBase + a[i]
             rest == DivSmallFrom(a, d, i - 1, t % d)
         IN  <<rest[1] \o <<t \div d>>, rest[2]>>

\* <<a div d, a mod d>>, for 0 < d <= LimbBase (the remainder an integer)
DivSmall(a, d) ==
    LET qr == DivSmallFrom(a, d, Len(a), 0)
    IN  <<Norm(qr[1]), qr[2]>>

\* a * 2^k
Shl(a, k) == ShiftLimbs(MulSmall(a, 2 ^ (k % LimbBits)), k \div LimbBits)

\* a div 2^k
Shr(a, k) ==
    IF k \div LimbBits >= Len(a) THEN << >>
    ELSE DivSmall(SubSeq(a, (k \div LimbBits) + 1, Len(a)), 2 ^ (k % LimbBits))[1]

Pow2(k) == Shl(<<1>>, k)

RECURSIVE SmallBitLen(_)
SmallBitLen(n) == IF n = 0 THEN 0 ELSE 1 + SmallBitLen(n \div 2)

\* the number of bits of a: 0 for 0, else floor(log2 a) + 1
BitLen(a) ==
    IF a = << >> THEN 0
    ELSE LimbBits * (Len(a) - 1) + SmallBitLen(a[Len(a)])

IsOdd(a) == a # << >> /\ a[1] % 2 = 1

RECURSIVE QuoDigit(_, _, _, _)
\* the largest d < LimbBase with d * b <= r, found bit by bit (r < LimbBase * b)
QuoDigit(r, b, bit, acc) ==
    IF bit < 0 THEN acc
    ELSE IF Le(MulSmall(b, acc + 2 ^ bit), r)
         THEN QuoDigit(r, b, bit - 1, acc + 2 ^ bit)
         ELSE QuoDigit(r, b, bit - 1, acc)

RECURSIVE DivFrom(_, _, _, _)
DivFrom(a, b, i, r) ==
    IF i = 0 THEN <<<< >>, r>>
    ELSE LET t    == Norm(<<a[i]>> \o r)
             d    == QuoDigit(t, b, LimbBits - 1, 0)
             rest == DivFrom(a, b, i - 1, Sub(t, MulSmall(b, d)))
         IN  <<rest[1] \o <<d>>, rest[2]>>

\* <<a div b, a mod b>>, for b > 0 (long division, a limb at a time)
DivMod(a, b) ==
    LET qr == DivFrom(a, b, Len(a), Zero)
    IN  <<Norm(qr[1]), qr[2]>>

Div(a, b) == DivMod(a, b)[1]
Mod(a, b) == DivMod(a, b)[2]

RECURSIVE Pow(_, _)
Pow(a, n) == IF n = 0 THEN <<1>> ELSE Mul(a, Pow(a, n - 1))

(***************************************************************************)
(* float64.  A value is (-1)^neg * m * 2^e with m < 2^53 + 1; the          *)
(* magnitudes the program computes stay far inside the exponent range, so  *)
(* neither overflow to infinity nor subnormals are modelled.               *)
(***************************************************************************)
MantBits == 53

F64(neg, m, e) == [neg |-> neg, m |-> m, e |-> e]

\* hi is q without its d low bits and c compares those bits with a half
\* (-1, 0, 1): up on more than a half, and on a half when the value lies
\* above q (sticky) or hi is odd (ties to even)
RoundUp(hi, c, sticky, d) ==
    [m |-> IF c > 0 \/ (c = 0 /\ (sticky \/ IsOdd(hi))) THEN Add(hi, <<1>>) ELSE hi,
     e |-> d]

RoundHi(q, hi, sticky, d) ==
    RoundUp(hi, Cmp(Sub(q, Shl(hi, d)), Pow2(d - 1)), sticky, d)

\* q rounded to MantBits bits, nearest, ties to even; sticky says that the
\* exact value lies strictly above q
RoundBits(q, sticky) ==
    IF BitLen(q) <= MantBits THEN [m |-> q, e |-> 0]
    ELSE RoundHi(q, Shr(q, BitLen(q) - MantBits), sticky, BitLen(q) - MantBits)

Scaled(r, k) == [m |-> r.m, e |-> r.e + k]

RoundQuo(qr) == RoundBits(qr[1], qr[2] # Zero)

\* a / b rounded, computed from the quotient and remainder of a * 2^k by b
RoundShifted(a, b, k) ==
    Scaled(RoundQuo(IF k >= 0 THEN DivMod(Shl(a, k), b) ELSE DivMod(a, Shl(b, -k))), -k)

\* the float64 nearest to a / b (a >= 0, b > 0), as [m, e]
RoundRatio(a, b) ==
    IF a = Zero THEN [m |-> Zero, e |-> 0]
    ELSE RoundShifted(a, b, (MantBits + 2) - (BitLen(a) - BitLen(b)))

Signed(neg, r) == F64(neg, r.m, r.e)

\* float64(s) of a uint64 s
Float64(s) == Signed(FALSE, RoundBits(s, FALSE))

\* x / y in float64, for y # 0
FDiv(x, y) == Signed(x.neg # y.neg, Scaled(RoundRatio(x.m, y.m), x.e - y.e))

\* x * y in float64
FMul(x, y) == Signed(x.neg # y.neg, Scaled(RoundBits(Mul(x.m, y.m), FALSE), x.e + y.e))

\* the integer part of |x|, a natural number
Trunc(x) == IF x.e >= 0 THEN Shl(x.m, x.e) ELSE Shr(x.m, -x.e)

\* |x| - Trunc(x) is zero
IsWhole(x) == x.e >= 0 \/ Shl(Shr(x.m, -x.e), -x.e) = x.m

\* math.Floor(x) == x: every whole float64 is its own floor
FloorIsSelf(x) == IsWhole(x)

\* t is Trunc(x), for x not whole: up when the fraction is a half or more
RoundHalfUp(x, t) ==
    IF Le(Pow2(-x.e - 1), Sub(x.m, Shl(t, -x.e)))
    THEN F64(x.neg, Add(t, <<1>>), 0)
    ELSE F64(x.neg, t, 0)

\* math.Round(x): the nearest integer, halves away from zero
MathRound(x) == IF IsWhole(x) THEN x ELSE RoundHalfUp(x, Trunc(x))

(***************************************************************************)
(* Strings: sequences of one-character strings.                            *)
(***************************************************************************)
DigitChars == <<"0", "1", "2", "3", "4", "5", "6", "7", "8", "9">>
LowerChars ==
    <<"a", "b", "c", "d", "e", "f", "g", "h", "i", "j", "k", "l", "m",
      "n", "o", "p", "q", "r", "s", "t", "u", "v", "w", "x", "y", "z">>
UpperChars ==
    <<"A", "B", "C", "D", "E", "F", "G", "H", "I", "J", "K", "L", "M",
      "N", "O", "P", "Q", "R", "S", "T", "U", "V", "W", "X", "Y", "Z">>

IsDigit(c) == \E i \in 1..10 : DigitChars[i] = c
DigitVal(c) == (CHOOSE i \in 1..10 : DigitChars[i] = c) - 1
IsLower(c) == \E i \in 1..26 : LowerChars[i] = c

\* strings.ToLower, on ASCII
ToLower(s) ==
    [i \in 1..Len(s) |->
        IF \E j \in 1..26 : UpperChars[j] = s[i]
        THEN LowerChars[CHOOSE j \in 1..26 : UpperChars[j] = s[i]]
        ELSE s[i]]

AllDigits(s) == \A i \in 1..Len(s) : IsDigit(s[i])

RECURSIVE AtoiFrom(_, _, _)
AtoiFrom(s, i, acc) ==
    IF i > Len(s) THEN acc
    ELSE AtoiFrom(s, i + 1, Add(MulSmall(acc, 10), Nat2Big(DigitVal(s[i]))))

\* the number a string of decimal digits writes ("" is 0)
Atoi(s) == AtoiFrom(s, 1, Zero)

RECURSIVE Itoa(_)
\* fmt's %d of a natural number
Itoa(n) ==
    IF n = Zero THEN <<"0">>
    ELSE LET qr == DivSmall(n, 10)
         IN  IF qr[1] = Zero THEN <<DigitChars[qr[2] + 1]>>
             ELSE Itoa(qr[1]) \o <<DigitChars[qr[2] + 1]>>

(***************************************************************************)
(* strconv.ParseFloat(s, 64) on the decimal forms: an optional sign, then  *)
(* digits with at most one point and at least one digit, and nothing else. *)
(* The forms that need other characters (an exponent "e", a hexadecimal    *)
(* "0x..p..", "inf", "infinity", "nan", "_") are syntax errors here as in  *)
(* strconv for every string without a digit after a letter and without the *)
(* letters e, f, n.  The result is the float64 nearest to the decimal.     *)
(***************************************************************************)
ParseFloat(s) ==
    LET signed == s # << >> /\ s[1] \in {"+", "-"}
        body   == IF signed THEN Tail(s) ELSE s
        dots   == {i \in 1..Len(body) : body[i] = "."}
        ok     == /\ \A i \in 1..Len(body) : IsDigit(body[i]) \/ body[i] = "."
                  /\ Cardinality(dots) <= 1
                  /\ \E i \in 1..Len(body) : IsDigit(body[i])
    IN  IF ~ok THEN [ok |-> FALSE, f |-> F64(FALSE, Zero, 0)]
        ELSE LET dot  == IF dots = {} THEN Len(body) + 1 ELSE CHOOSE i \in dots : TRUE
                 int  == SubSeq(body, 1, dot - 1)
                 frac == SubSeq(body, dot + 1, Len(body))
             IN  [ok |-> TRUE,
                  f  |-> Signed(signed /\ s[1] = "-",
                                RoundRatio(Atoi(int \o frac), Pow(<<10>>, Len(frac))))]

(***************************************************************************)
(* type Size uint64, and the conversion Size(f) of a float64.              *)
(***************************************************************************)
SizeBits == 64
MaxSize == Sub(Pow2(SizeBits), <<1>>)

\* a natural number reduced to uint64
Wrap64(a) == Sub(a, Shl(Shr(a, SizeBits), SizeBits))

\* The Go specification leaves the conversion of a float64 whose integer
\* part no uint64 holds (negative, or 2^64 and more) to the implementation;
\* these are the results builds produce: 0, 2^63, the maximum, or the
\* two's-complement wrap of the integer part.
OutOfRange == {"zero", "high bit", "max", "wrap"}

InRange(f) == (~f.neg \/ Trunc(f) = Zero) /\ Le(Trunc(f), MaxSize)

\* a negative integer part t, wrapped into uint64
Negate64(t) == IF t = Zero THEN Zero ELSE Sub(Pow2(SizeBits), t)

OutOfRangeSize(neg, t, ood) ==
    CASE ood = "zero"     -> Zero
      [] ood = "high bit" -> Pow2(SizeBits - 1)
      [] ood = "max"      -> MaxSize
      [] ood = "wrap"     -> IF neg THEN Negate64(Wrap64(t)) ELSE Wrap64(t)

\* Size(f); ood is the build's answer where f is out of range
ToSize(f, ood) ==
    IF InRange(f) THEN Trunc(f) ELSE OutOfRangeSize(f.neg, Trunc(f), ood)

Byte == <<1>>
Kilobyte == MulSmall(Byte, 1000)
Megabyte == MulSmall(Kilobyte, 1000)
Gigabyte == MulSmall(Megabyte, 1000)
Terabyte == MulSmall(Gigabyte, 1000)
Petabyte == MulSmall(Terabyte, 1000)

Kibibyte == MulSmall(Byte, 1024)
Mebibyte == MulSmall(Kibibyte, 1024)
Gibibyte == MulSmall(Mebibyte, 1024)
Tebibyte == MulSmall(Gibibyte, 1024)
Pebibyte == MulSmall(Tebibyte, 1024)

\* the list with the two largest units exchanged
unitsSwapped ==
    << Petabyte, Pebibyte,
       Tebibyte, Terabyte,
       Gibibyte, Gigabyte,
       Mebibyte, Megabyte,
       Kibibyte, Kilobyte >>

units ==
    << Pebibyte, Petabyte,
       Tebibyte, Terabyte,
       Gibibyte, Gigabyte,
       Mebibyte, Megabyte,
       Kibibyte, Kilobyte >>

(***************************************************************************)
(* Errors.  Parse returns one of its own three errors, or hands back the   *)
(* *strconv.NumError of its second ParseFloat call.                        *)
(***************************************************************************)
ErrNil == "nil"
ErrEmpty == "datasize: invalid Size: empty"
ErrFormat == "datasize: invalid Size format"
ErrSuffix == "datasize: invalid Size unit suffix"
ErrNum == "strconv.ParseFloat: invalid syntax"

(***************************************************************************)
(* sizeRegex: digits (any number), optionally a point and digits (any     *)
(* number), then letters a-z (one or more); no anchors.                   *)
(* FindStringSubmatch returns the leftmost match, and at one start the     *)
(* match a backtracking search meets first: the longest run of digits, the *)
(* point group if a point follows, the longest run of letters.  Digits,    *)
(* the point and letters exclude one another, so at one start no shorter   *)
(* choice for a group matches where the longest fails.                     *)
(***************************************************************************)
RECURSIVE DigitRun(_, _)
DigitRun(s, i) ==
    IF i <= Len(s) /\ IsDigit(s[i]) THEN 1 + DigitRun(s, i + 1) ELSE 0

RECURSIVE LetterRun(_, _)
LetterRun(s, i) ==
    IF i <= Len(s) /\ IsLower(s[i]) THEN 1 + LetterRun(s, i + 1) ELSE 0

\* the submatches <<whole, 1, 2, 3>> of a match that starts at i, or << >>
MatchAt(s, i) ==
    LET j      == i + DigitRun(s, i)
        hasDot == j <= Len(s) /\ s[j] = "."
        k      == IF hasDot THEN j + 1 + DigitRun(s, j + 1) ELSE j
        n      == LetterRun(s, k)
    IN  IF n = 0 THEN << >>
        ELSE << SubSeq(s, i, k + n - 1), SubSeq(s, i, j - 1),
                SubSeq(s, j, k - 1), SubSeq(s, k, k + n - 1) >>

RECURSIVE FindFrom(_, _)
FindFrom(s, i) ==
    IF i > Len(s) THEN << >>
    ELSE IF MatchAt(s, i) # << >> THEN MatchAt(s, i)
    ELSE FindFrom(s, i + 1)

sizeRegex(s) == FindFrom(s, 1)

suffixSize(suffix) ==
    CASE suffix = <<"b">>           -> [sz |-> Byte, err |-> ErrNil]
      [] suffix = <<"k", "b">>      -> [sz |-> Kilobyte, err |-> ErrNil]
      [] suffix = <<"m", "b">>      -> [sz |-> Megabyte, err |-> ErrNil]
      [] suffix = <<"g", "b">>      -> [sz |-> Gigabyte, err |-> ErrNil]
      [] suffix = <<"t", "b">>      -> [sz |-> Terabyte, err |-> ErrNil]
      [] suffix = <<"p", "b">>      -> [sz |-> Petabyte, err |-> ErrNil]
      [] suffix = <<"k", "i", "b">> -> [sz |-> Kibibyte, err |-> ErrNil]
      [] suffix = <<"m", "i", "b">> -> [sz |-> Mebibyte, err |-> ErrNil]
      [] suffix = <<"g", "i", "b">> -> [sz |-> Gibibyte, err |-> ErrNil]
      [] suffix = <<"t", "i", "b">> -> [sz |-> Tebibyte, err |-> ErrNil]
      [] suffix = <<"p", "i", "b">> -> [sz |-> Pebibyte, err |-> ErrNil]
      [] OTHER                      -> [sz |-> Zero, err |-> ErrSuffix]

\* Parse, from f * float64(sz) on
ParseUnit(num, us, ood) ==
    IF ~num.ok THEN [sz |-> Zero, err |-> ErrNum]
    ELSE IF us.err # ErrNil THEN [sz |-> Zero, err |-> us.err]
    ELSE [sz |-> ToSize(FMul(num.f, Float64(us.sz)), ood), err |-> ErrNil]

\* Parse, from the submatches ss on
ParseMatch(ss, ood) ==
    IF Len(ss) = 0 THEN [sz |-> Zero, err |-> ErrFormat]
    ELSE ParseUnit(ParseFloat(ss[2] \o ss[3]), suffixSize(ss[4]), ood)

\* Parse, from the result of the first ParseFloat on
ParseBare(s, bare, ood) ==
    IF bare.ok THEN [sz |-> ToSize(bare.f, ood), err |-> ErrNil]
    ELSE ParseMatch(sizeRegex(ToLower(s)), ood)

\* Parse(s); ood is the build's answer for Size(f) where f is out of range
Parse(s, ood) ==
    IF s = << >> THEN [sz |-> Zero, err |-> ErrEmpty]
    ELSE ParseBare(s, ParseFloat(s), ood)

sizeSuffix(unit) ==
    CASE unit = Petabyte -> <<"P", "B">>
      [] unit = Pebibyte -> <<"P", "i", "B">>
      [] unit = Terabyte -> <<"T", "B">>
      [] unit = Tebibyte -> <<"T", "i", "B">>
      [] unit = Gigabyte -> <<"G", "B">>
      [] unit = Gibibyte -> <<"G", "i", "B">>
      [] unit = Megabyte -> <<"M", "B">>
      [] unit = Mebibyte -> <<"M", "i", "B">>
      [] unit = Kilobyte -> <<"k", "B">>
      [] unit = Kibibyte -> <<"K", "i", "B">>
      [] OTHER           -> <<"B">>

RECURSIVE FloorFromStrict(_, _)
\* Floor with s > unit for s >= unit
FloorFromStrict(s, i) ==
    IF i > Len(units) THEN s
    ELSE IF Lt(units[i], s) THEN Wrap64(Mul(Div(s, units[i]), units[i]))
    ELSE FloorFromStrict(s, i + 1)

RECURSIVE FloorFrom(_, _)
FloorFrom(s, i) ==
    IF i > Len(units) THEN s
    ELSE IF Le(units[i], s) THEN Wrap64(Mul(Div(s, units[i]), units[i]))
    ELSE FloorFrom(s, i + 1)

Floor(s) == FloorFrom(s, 1)

RECURSIVE RoundFrom(_, _)
\* the quotient is at most 2^14, so Size(math.Round(...)) is always in range
RoundFrom(s, i) ==
    IF i > Len(units) THEN s
    ELSE IF Le(units[i], s)
         THEN Wrap64(Mul(ToSize(MathRound(FDiv(Float64(s), Float64(units[i]))), "zero"),
                         units[i]))
    ELSE RoundFrom(s, i + 1)

Round(s) == RoundFrom(s, 1)

Bytes(s) == s
Kilobytes(s) == FDiv(Float64(s), Float64(Kilobyte))
Megabytes(s) == FDiv(Float64(s), Float64(Megabyte))
Gigabytes(s) == FDiv(Float64(s), Float64(Gigabyte))
Terabytes(s) == FDiv(Float64(s), Float64(Terabyte))
Petabytes(s) == FDiv(Float64(s), Float64(Petabyte))
Kibibytes(s) == FDiv(Float64(s), Float64(Kibibyte))
Mebibytes(s) == FDiv(Float64(s), Float64(Mebibyte))
Gibibytes(s) == FDiv(Float64(s), Float64(Gibibyte))
Tebibytes(s) == FDiv(Float64(s), Float64(Tebibyte))
Pebibytes(s) == FDiv(Float64(s), Float64(Pebibyte))

\* the hundredths written: the integer part, a point, two digits
F2Write(qr) ==
    Itoa(qr[1]) \o <<".", DigitChars[(qr[2] \div 10) + 1], DigitChars[(qr[2] % 10) + 1]>>

\* q is h div 2^sh: the number of hundredths, rounded to nearest, ties to even
F2Round(h, q, sh) ==
    IF sh = 0 THEN q
    ELSE RoundUp(q, Cmp(Sub(h, Shl(q, sh)), Pow2(sh - 1)), FALSE, 0).m

F2Shift(h, sh) == F2Write(DivSmall(F2Round(h, Shr(h, sh), sh), 100))

\* fmt's %.2f of a float64 size >= 0: the decimal nearest to the exact
\* value, ties to even
FormatF2(size) ==
    IF size.e >= 0 THEN F2Shift(Shl(MulSmall(size.m, 100), size.e), 0)
    ELSE F2Shift(MulSmall(size.m, 100), -size.e)

\* format without its whole-number branch
formatAlwaysF2(size, suffix) == FormatF2(size) \o suffix

format(size, suffix) ==
    IF FloorIsSelf(size) THEN Itoa(Trunc(size)) \o suffix
    ELSE FormatF2(size) \o suffix

\* String with the last binary case comparing with Kilobyte
StringKilo(s) ==
    IF s = Zero THEN <<"0", "B">>
    ELSE IF Mod(s, Petabyte) = Zero THEN format(Petabytes(s), <<"P", "B">>)
    ELSE IF Le(Pebibyte, s) THEN format(Pebibytes(s), <<"P", "i", "B">>)
    ELSE IF Mod(s, Terabyte) = Zero THEN format(Terabytes(s), <<"T", "B">>)
    ELSE IF Le(Tebibyte, s) THEN format(Tebibytes(s), <<"T", "i", "B">>)
    ELSE IF Mod(s, Gigabyte) = Zero THEN format(Gigabytes(s), <<"G", "B">>)
    ELSE IF Le(Gibibyte, s) THEN format(Gibibytes(s), <<"G", "i", "B">>)
    ELSE IF Mod(s, Megabyte) = Zero THEN format(Megabytes(s), <<"M", "B">>)
    ELSE IF Le(Mebibyte, s) THEN format(Mebibytes(s), <<"M", "i", "B">>)
    ELSE IF Mod(s, Kilobyte) = Zero THEN format(Kilobytes(s), <<"k", "B">>)
    ELSE IF Le(Kilobyte, s) THEN format(Kibibytes(s), <<"K", "i", "B">>)
    ELSE Itoa(s) \o <<"B">>

String(s) ==
    IF s = Zero THEN <<"0", "B">>
    ELSE IF Mod(s, Petabyte) = Zero THEN format(Petabytes(s), <<"P", "B">>)
    ELSE IF Le(Pebibyte, s) THEN format(Pebibytes(s), <<"P", "i", "B">>)
    ELSE IF Mod(s, Terabyte) = Zero THEN format(Terabytes(s), <<"T", "B">>)
    ELSE IF Le(Tebibyte, s) THEN format(Tebibytes(s), <<"T", "i", "B">>)
    ELSE IF Mod(s, Gigabyte) = Zero THEN format(Gigabytes(s), <<"G", "B">>)
    ELSE IF Le(Gibibyte, s) THEN format(Gibibytes(s), <<"G", "i", "B">>)
    ELSE IF Mod(s, Megabyte) = Zero THEN format(Megabytes(s), <<"M", "B">>)
    ELSE IF Le(Mebibyte, s) THEN format(Mebibytes(s), <<"M", "i", "B">>)
    ELSE IF Mod(s, Kilobyte) = Zero THEN format(Kilobytes(s), <<"k", "B">>)
    ELSE IF Le(Kibibyte, s) THEN format(Kibibytes(s), <<"K", "i", "B">>)
    ELSE Itoa(s) \o <<"B">>

(***************************************************************************)
(* The flag adapter: sizeFlag holds a *Size; f is the Size it points to.   *)
(***************************************************************************)
\* FlagVar: *s = value, and the flag is registered with the FlagSet
FlagVar(value) == value

\* sizeFlag.Get
Get(f) == f

\* Set that stores the Size before it looks at the error
SetParsedAlways(f, r) == [Size |-> r.sz, err |-> r.err]

\* sizeFlag.Set, from the result r of Parse on
SetParsed(f, r) ==
    IF r.err # ErrNil THEN [Size |-> f, err |-> r.err]
    ELSE [Size |-> r.sz, err |-> ErrNil]

\* sizeFlag.Set: the Size pointed to afterwards, and the error returned
Set(f, s, ood) == SetParsed(f, Parse(s, ood))

(***************************************************************************)
(* The inputs.  Sizes lie around the whole and the half multiples of every *)
(* unit, counted up from 0 and down from the next larger unit (2^64 for    *)
(* the largest); strings are put together from a decoration, an integer    *)
(* part, a fractional part and a suffix.                                   *)
(***************************************************************************)
MaxSteps == 6
MaxInt == 3
MaxFrac == 3
MaxDefault == 25
MaxFlagInt == 2

AllUnits == units \o <<Byte>>
Top(i) == IF i = 1 THEN Pow2(SizeBits) ELSE AllUnits[i - 1]
Half(u) == Shr(u, 1)
Steps == (0..MaxSteps) \cup {250 * k : k \in 1..MaxSteps}

Anchors(i) ==
    {Mul(Nat2Big(m), Half(AllUnits[i])) : m \in Steps}
        \cup {Sub(Top(i), Mul(Nat2Big(m), Half(AllUnits[i]))) :
                m \in {n \in 0..MaxSteps : Le(Mul(Nat2Big(n), Half(AllUnits[i])), Top(i))}}

Around(a) ==
    {Add(a, <<1>>), a} \cup (IF a = Zero THEN {} ELSE {Sub(a, <<1>>)})

SizeInputs ==
    {s \in UNION {Around(a) : a \in UNION {Anchors(i) : i \in 1..Len(AllUnits)}} :
        Le(s, MaxSize)}

IntParts == {<< >>} \cup {Itoa(Nat2Big(n)) : n \in 0..MaxInt}
FracParts ==
    {<< >>, <<".">>}
        \cup {<<".", DigitChars[(n \div 10) + 1], DigitChars[(n % 10) + 1]>> : n \in 0..MaxFrac}
SuffixParts ==
    { << >>, <<"b">>, <<"k", "b">>, <<"m", "b">>, <<"g", "b">>, <<"t", "b">>,
      <<"p", "b">>, <<"k", "i", "b">>, <<"m", "i", "b">>, <<"g", "i", "b">>,
      <<"t", "i", "b">>, <<"p", "i", "b">>, <<"K", "i", "B">>, <<"G", "b">>,
      <<"M", "B">>, <<"x", "b">>, <<"a", "b", "c">> }
Decorate(s) ==
    {s, <<" ">> \o s, s \o <<" ">>, <<"+">> \o s, <<"-">> \o s, s \o <<"!">>}

ParseInputs ==
    UNION {Decorate(i \o f \o x) : i \in IntParts, f \in FracParts, x \in SuffixParts}

FlagDefaults == {s \in SizeInputs : Le(s, Nat2Big(MaxDefault))}
FlagInputs ==
    {i \o x : i \in {<< >>} \cup {Itoa(Nat2Big(n)) : n \in 1..MaxFlagInt},
              x \in {<< >>, <<"k", "b">>, <<"K", "i", "B">>, <<"x", "b">>}}

(***************************************************************************)
(* The state machine: one run takes a Size or a string and calls the       *)
(* package on it, as the tests do (String then Parse, Floor or Round then  *)
(* String), or binds a flag and sets and reads it.                         *)
(***************************************************************************)
VARIABLES
    pc,      \* the last call made ("size" / "string": none yet, an input is given)
    size,    \* the Size given (the receiver, or FlagVar's default value)
    str,     \* the string given, or the string String returned
    out,     \* the Size the last call returned
    err,     \* the error the last call returned
    flag     \* << >>: no flag is bound; <<sz>>: the bound *Size holds sz

vars == <<pc, size, str, out, err, flag>>

Init ==
    /\ \/ pc = "size" /\ size \in SizeInputs /\ str = << >>
       \/ pc = "string" /\ size = Zero /\ str \in ParseInputs
    /\ out = Zero
    /\ err = ErrNil
    /\ flag = << >>

\* a call returns the Size r.sz and the error r.err
Returns(r) == out' = r.sz /\ err' = r.err

CallParse ==
    /\ pc = "string"
    /\ \E ood \in OutOfRange : Returns(Parse(str, ood))
    /\ pc' = "Parse"
    /\ UNCHANGED <<size, str, flag>>

CallString ==
    /\ pc = "size"
    /\ str' = String(size)
    /\ pc' = "String"
    /\ UNCHANGED <<size, out, err, flag>>

\* TestRoundString: Parse(size.String())
ParseBack ==
    /\ pc = "String"
    /\ \E ood \in OutOfRange : Returns(Parse(str, ood))
    /\ pc' = "String.Parse"
    /\ UNCHANGED <<size, str, flag>>

CallFloor ==
    /\ pc = "size"
    /\ out' = Floor(size)
    /\ pc' = "Floor"
    /\ UNCHANGED <<size, str, err, flag>>

CallRound ==
    /\ pc = "size"
    /\ out' = Round(size)
    /\ pc' = "Round"
    /\ UNCHANGED <<size, str, err, flag>>

\* TestFloor, TestRound: found.String()
StringResult ==
    /\ pc \in {"Floor", "Round"}
    /\ str' = String(out)
    /\ pc' = IF pc = "Floor" THEN "Floor.String" ELSE "Round.String"
    /\ UNCHANGED <<size, out, err, flag>>

CallFlagVar ==
    /\ pc = "size"
    /\ size \in FlagDefaults
    /\ flag' = <<FlagVar(size)>>
    /\ out' = FlagVar(size)
    /\ pc' = "FlagVar"
    /\ UNCHANGED <<size, str, err>>

\* Flag, from the result r of Parse on: a default that does not parse panics
FlagParsed(r) ==
    IF r.err # ErrNil
    THEN pc' = "panic" /\ err' = r.err /\ UNCHANGED <<size, out, flag>>
    ELSE /\ flag' = <<FlagVar(r.sz)>>
         /\ size' = r.sz
         /\ out' = FlagVar(r.sz)
         /\ pc' = "FlagVar"
         /\ err' = ErrNil

\* Flag: the default is given as a string
CallFlag ==
    /\ pc = "string"
    /\ str \in FlagInputs
    /\ \E ood \in OutOfRange : FlagParsed(Parse(str, ood))
    /\ UNCHANGED str

\* the flag holds r.Size and the call returns r.err
SetReturns(r) == flag' = <<r.Size>> /\ err' = r.err

CallSet ==
    /\ pc \in {"FlagVar", "Set", "Get"}
    /\ \E s \in FlagInputs, ood \in OutOfRange :
         SetReturns(Set(flag[1], s, ood)) /\ str' = s
    /\ out' = Zero
    /\ pc' = "Set"
    /\ UNCHANGED size

CallGet ==
    /\ pc \in {"FlagVar", "Set", "Get"}
    /\ out' = Get(flag[1])
    /\ err' = ErrNil
    /\ pc' = "Get"
    /\ UNCHANGED <<size, str, flag>>

Next ==
    \/ CallParse
    \/ CallString
    \/ ParseBack
    \/ CallFloor
    \/ CallRound
    \/ StringResult
    \/ CallFlagVar
    \/ CallFlag
    \/ CallSet
    \/ CallGet

Spec == Init /\ [][Next]_vars

(***************************************************************************)
(* What the claims speak of.                                               *)
(***************************************************************************)
UnitSet == {units[i] : i \in 1..Len(units)}

\* the largest of the ten units that is at most s, for s >= Kilobyte
LargestUnit(s) ==
    CHOOSE u \in UnitSet : Le(u, s) /\ \A v \in UnitSet : Le(v, s) => Le(v, u)

\* the whole multiple of u nearest to s, an exact half going up
NearestMultiple(s, u) ==
    IF Le(u, MulSmall(Mod(s, u), 2)) THEN Mul(Add(Div(s, u), <<1>>), u)
    ELSE Mul(Div(s, u), u)

\* rounding s to r reached a unit larger than s
Crossed(s, r) == \E v \in UnitSet : Lt(s, v) /\ Le(v, r)

HasPoint(s) == \E i \in 1..Len(s) : s[i] = "."

EndsWith(s, x) == Len(s) >= Len(x) /\ SubSeq(s, Len(s) - Len(x) + 1, Len(s)) = x

HasUnitSuffix(s) == \E u \in UnitSet : EndsWith(s, sizeSuffix(u))

PlainBytes(s, n) == s = Itoa(n) \o <<"B">>

\* the eleven suffixes and their units
SuffixTable ==
    { <<<<"b">>, Byte>>,
      <<<<"k", "b">>, Kilobyte>>, <<<<"m", "b">>, Megabyte>>, <<<<"g", "b">>, Gigabyte>>,
      <<<<"t", "b">>, Terabyte>>, <<<<"p", "b">>, Petabyte>>,
      <<<<"k", "i", "b">>, Kibibyte>>, <<<<"m", "i", "b">>, Mebibyte>>,
      <<<<"g", "i", "b">>, Gibibyte>>, <<<<"t", "i", "b">>, Tebibyte>>,
      <<<<"p", "i", "b">>, Pebibyte>> }

KnownSuffix(x) == \E p \in SuffixTable : p[1] = ToLower(x)
UnitOf(x) == IF x = << >> THEN Byte ELSE (CHOOSE p \in SuffixTable : p[1] = ToLower(x))[2]

\* the length of the leading digits with their optional fractional part
NumLen(s) ==
    IF DigitRun(s, 1) < Len(s) /\ s[DigitRun(s, 1) + 1] = "."
    THEN DigitRun(s, 1) + 1 + DigitRun(s, DigitRun(s, 1) + 2)
    ELSE DigitRun(s, 1)

Letters(s) == \A i \in 1..Len(s) : IsLower(ToLower(s)[i])

\* a magnitude (digits, optionally a point and digits) and then letters only
IsMagnitude(s) == DigitRun(s, 1) >= 1 /\ Letters(SubSeq(s, NumLen(s) + 1, Len(s)))
SuffixOf(s) == SubSeq(s, NumLen(s) + 1, Len(s))

\* floor(m * unit) for the magnitude m that s starts with, computed exactly
ExactBytes(s) ==
    LET int  == SubSeq(s, 1, DigitRun(s, 1))
        frac == SubSeq(s, DigitRun(s, 1) + 2, NumLen(s))
    IN  Div(Mul(Atoi(int \o frac), UnitOf(SuffixOf(s))), Pow(<<10>>, Len(frac)))

\* content before the number or after the suffix: a leading space or sign,
\* a trailing space or punctuation
HasExtra(s) ==
    s # << >> /\ (s[1] \in {" ", "+", "-"} \/ s[Len(s)] \in {" ", "!"})

(***************************************************************************)
(* The claims.                                                             *)
(***************************************************************************)
\* C1: for every Size s, Parse(s.String()) succeeds and returns exactly s.
C1_RoundTrip == pc = "String.Parse" => (err = ErrNil /\ out = size)

\* C2: FlagVar stores the default v in *s; a Set whose string parses stores
\* a Parse result of that string in *s and returns nil; a Set whose string
\* fails to parse returns the error and leaves *s as it was; Get returns *s
\* and changes nothing.  So *s is always the Parse result of the most recent
\* Set that succeeded, or v.
C2_FlagHoldsLastParsed ==
    [][ /\ (pc = "size" /\ pc' = "FlagVar" => flag' = <<size>>)
        /\ (pc' = "Set" =>
              IF Parse(str', "zero").err # ErrNil
              THEN err' # ErrNil /\ flag' = flag
              ELSE err' = ErrNil /\ \E ood \in OutOfRange : flag' = <<Parse(str', ood).sz>>)
        /\ (pc' = "Get" => out' = flag[1] /\ flag' = flag) ]_vars

\* a Set that failed after a Set that had replaced the default
C2_Witness == pc = "Set" /\ err # ErrNil /\ flag # <<size>>

\* C3: every failure of Parse is the empty-input error (for ""), the
\* invalid-format error (for a string of letters with no digits, such as
\* "abc") or the invalid-unit-suffix error (for a number followed by letters
\* that are no suffix, such as "1xb"), and never an error of another kind.
C3_ThreeErrorKinds ==
    pc = "Parse" =>
        /\ err \in {ErrNil, ErrEmpty, ErrFormat, ErrSuffix}
        /\ (str = << >> => err = ErrEmpty)
        /\ (str # << >> /\ Letters(str) => err = ErrFormat)
        /\ (IsMagnitude(str) /\ SuffixOf(str) # << >> /\ ~KnownSuffix(SuffixOf(str))
              => err = ErrSuffix)

\* C4: a string with content before the number or after the suffix fails
\* with the invalid-format error and never yields a Size.
C4_WholeStringOnly == pc = "Parse" /\ HasExtra(str) => err = ErrFormat

\* C5: for a magnitude m followed by one of the eleven suffixes in any mix
\* of case, or by nothing, Parse returns floor(m * unit) and no error.
C5_FloorOfProduct ==
    pc = "Parse" /\ IsMagnitude(str) /\ (SuffixOf(str) = << >> \/ KnownSuffix(SuffixOf(str)))
        => err = ErrNil /\ out = ExactBytes(str)

\* C6: Floor(s) = s for s < 1000; otherwise, with u the largest unit at most
\* s, Floor(s) = (s div u) * u, a whole multiple of u with Floor(s) <= s and
\* s - Floor(s) < u; Floor(u) = u for each of the ten units.
C6_FloorLaw ==
    pc = "Floor" =>
        IF Lt(size, Kilobyte) THEN out = size
        ELSE /\ out = Mul(Div(size, LargestUnit(size)), LargestUnit(size))
             /\ Mod(out, LargestUnit(size)) = Zero
             /\ Le(out, size)
             /\ Lt(Sub(size, out), LargestUnit(size))
             /\ (size \in UnitSet => out = size)

\* a Floor that cut something off
C6_Witness == pc = "Floor" /\ Le(Kilobyte, size) /\ out # size

\* C7: Round(s) = s for s < 1000; otherwise Round(s) is the whole multiple
\* of the largest unit at most s that is nearest to s, an exact half going
\* up, for every s up to the maximum Size.
C7_RoundNearest ==
    pc = "Round" =>
        IF Lt(size, Kilobyte) THEN out = size
        ELSE out = NearestMultiple(size, LargestUnit(size))

\* C8: neither Floor(s).String() nor Round(s).String() contains a decimal
\* point.
C8_NoDecimalPoint == pc \in {"Floor.String", "Round.String"} => ~HasPoint(str)

\* a Round that went up into the next larger unit, then formatted
C8_Witness == pc = "Round.String" /\ Crossed(size, out)

\* C9 as claimed: String() is the plain byte count followed by "B" exactly
\* below 1000, and ends in one of the ten unit suffixes from 1000 on.
C9_PlainBelowKilobyte ==
    pc = "String" =>
        IF Lt(size, Kilobyte) THEN PlainBytes(str, size) ELSE HasUnitSuffix(str)

\* C9 as amended: String() is the plain byte count followed by "B" exactly
\* for the values below 1024 other than 1000, and ends in one of the ten
\* unit suffixes for 1000 and from 1024 on.
C9_PlainBelowKibibyte ==
    pc = "String" =>
        IF Lt(size, Kibibyte) /\ size # Kilobyte THEN PlainBytes(str, size)
        ELSE HasUnitSuffix(str)

\* a value from 1001 to 1023, formatted
C9_Witness == pc = "String" /\ Lt(Kilobyte, size) /\ Lt(size, Kibibyte)

\* C10 as claimed: Floor(Floor(s)) = Floor(s) and Round(Round(s)) = Round(s).
C10_Idempotent ==
    /\ (pc = "Floor" => Floor(out) = out)
    /\ (pc = "Round" => Round(out) = out)

\* C10 as amended: Floor(Floor(s)) = Floor(s); and Round(Round(s)) =
\* Round(s) exactly when Round(s) has not reached a unit larger than s.
C10_IdempotentUnlessCrossed ==
    /\ (pc = "Floor" => Floor(out) = out)
    /\ (pc = "Round" => (Round(out) = out <=> ~Crossed(size, out)))

\* a Round that changed the value and stayed below the next larger unit
C10_Witness == pc = "Round" /\ out # size /\ ~Crossed(size, out)

=============================================================================
